---- MODULE Spec2Model ----
(***************************************************************************)
(* Model of alignparse.ccs: parsing of `ccs` yield reports, per-read       *)
(* statistics of a FASTQ file, construction of a Summary of one run and    *)
(* of the Summaries of several runs, and the methods ccs_stats and         *)
(* zmw_stats that aggregate the runs.                                      *)
(*                                                                         *)
(* Data frames are sequences of rows; float cells are rationals.  An outer *)
(* merge keeps the rows of the left frame in order, followed by the rows   *)
(* of the right frame whose keys the left frame lacks.                     *)
(*                                                                         *)
(* Texts are TLA+ strings handled character by character; the regular      *)
(* expressions of the source are translated into matchers over positions   *)
(* (1-based, 0 = no match).                                                *)
(***************************************************************************)
EXTENDS Integers, Sequences, FiniteSets, TLC

VARIABLES
    report,     \* report_to_stats: text of the report file being parsed
    rstage,     \* report_to_stats: position in the loop over the parsers
    rresult,    \* report_to_stats: the data frame returned / error raised
    fastq,      \* get_ccs_stats: the records of the FASTQ file
    pass_tag,   \* get_ccs_stats: the tag of the number of passes ("" for None)
    ccs,        \* get_ccs_stats: the lists passes, length, accuracy
    cstage,     \* get_ccs_stats: "loop" over the records, then "done"
    sfs,        \* Summary: the files, path |-> [isfile, reads, text]
    summ,       \* Summary: arguments, position in __init__, self, exception
    df,         \* Summaries: the data frame of the runs
    margs,      \* Summaries: name_col, fastq_col, report_col, ncpus
    cpu_count,  \* Summaries: pathos.multiprocessing.cpu_count()
    mpc,        \* Summaries: position in __init__
    ncpus,      \* Summaries: the local ncpus after lines 151-154
    pool,       \* Summaries: state of the ProcessPool ("none" without one)
    nstarted,   \* Summaries: number of Summary constructions begun
    running,    \* Summaries: rows whose task a worker is running
    completed,  \* Summaries: rows whose task has ended, in order of completion
    results,    \* Summaries: the result of map_func collected so far
    firstfail,  \* Summaries: row of the first task seen to fail (0: none)
    summaries,  \* Summaries: self.summaries
    merr,       \* Summaries: the exception raised by __init__
    scall,      \* ccs_stats, zmw_stats: the method called and its arguments
    spc,        \* ccs_stats, zmw_stats: position in the method
    zdf,        \* zmw_stats: the local df
    other_df,   \* zmw_stats: the local other_df
    success_df, \* zmw_stats: the local success_df
    sresult     \* ccs_stats, zmw_stats: the data frame returned / error raised

rvars == <<report, rstage, rresult>>

cvars == <<fastq, pass_tag, ccs, cstage>>

svars == <<sfs, summ>>

mvars == <<df, margs, cpu_count, mpc, ncpus, pool, nstarted, running, completed,
           results, firstfail, summaries, merr>>

avars == <<scall, spc, zdf, other_df, success_df, sresult>>

vars == <<rvars, cvars, svars, mvars, avars>>

-----------------------------------------------------------------------------
(* Characters and Python string primitives                                 *)

Digits == {"0", "1", "2", "3", "4", "5", "6", "7", "8", "9"}

Letters ==
    {"a", "b", "c", "d", "e", "f", "g", "h", "i", "j", "k", "l", "m",
     "n", "o", "p", "q", "r", "s", "t", "u", "v", "w", "x", "y", "z",
     "A", "B", "C", "D", "E", "F", "G", "H", "I", "J", "K", "L", "M",
     "N", "O", "P", "Q", "R", "S", "T", "U", "V", "W", "X", "Y", "Z"}

\* regex \s
SpaceChars == {" ", "\t", "\n", "\r"}

\* regex \w
WordChars == Letters \cup Digits \cup {"_"}

\* regex [\w \-]
LabelChars == WordChars \cup {" ", "-"}

Ch(s, i) == IF i >= 1 /\ i <= Len(s) THEN SubSeq(s, i, i) ELSE ""

\* first position >= i whose character is not in class
SkipWhile(s, i, class) ==
    LET f[j \in Nat] == IF j <= Len(s) /\ Ch(s, j) \in class THEN f[j + 1] ELSE j
    IN  f[i]

\* first position >= i whose character is in class (or Len(s) + 1)
SkipUntil(s, i, class) ==
    LET f[j \in Nat] == IF j <= Len(s) /\ Ch(s, j) \notin class THEN f[j + 1] ELSE j
    IN  f[i]

\* a literal of a pattern at position i: the position after it, or 0
Lit(s, i, lit) ==
    IF i > 0 /\ i + Len(lit) - 1 <= Len(s) /\ SubSeq(s, i, i + Len(lit) - 1) = lit
    THEN i + Len(lit)
    ELSE 0

\* class+ at position i (greedy): the position after it, or 0
Plus(s, i, class) ==
    IF i = 0 THEN 0
    ELSE LET j == SkipWhile(s, i, class) IN IF j > i THEN j ELSE 0

\* \S+ or .+ at position i (greedy): one or more characters outside class
PlusNot(s, i, class) ==
    IF i = 0 THEN 0
    ELSE LET j == SkipUntil(s, i, class) IN IF j > i THEN j ELSE 0

\* $ without re.MULTILINE: at the end, or before a newline that ends the text
AtEnd(s, i) ==
    \/ i = Len(s) + 1
    \/ i = Len(s) /\ Ch(s, i) = "\n"

\* the elements of a pattern: a literal, class+ and (not class)+
L(v) == [t |-> "lit", v |-> v, c |-> {}]
P(c) == [t |-> "plus", v |-> "", c |-> c]
N(c) == [t |-> "plusnot", v |-> "", c |-> c]

Elem(s, i, e) ==
    CASE e.t = "lit" -> Lit(s, i, e.v)
      [] e.t = "plus" -> Plus(s, i, e.c)
      [] e.t = "plusnot" -> PlusNot(s, i, e.c)

\* the elements of pat matched one after the other from position i: the
\* positions before each element and after the last one; the sequence ends
\* with 0 where an element does not match
MatchAt(s, pat, i) ==
    LET f[k \in Nat, j \in Nat] ==
            IF j = 0 \/ k > Len(pat) THEN <<j>>
            ELSE <<j>> \o f[k + 1, Elem(s, j, pat[k])]
    IN  f[1, i]

\* the position after pat matched from position i, or 0
MatchEnd(s, pat, i) ==
    LET f[k \in Nat, j \in Nat] ==
            IF j = 0 \/ k > Len(pat) THEN j
            ELSE f[k + 1, Elem(s, j, pat[k])]
    IN  f[1, i]

\* (pat)+ , greedy, from position i: the position after the last repetition
\* (i itself when there is none)
Repeat(s, pat, i) ==
    LET f[j \in Nat] ==
            LET e == MatchEnd(s, pat, j) IN IF e = 0 THEN j ELSE f[e]
    IN  f[i]

\* str.split(sep) for a one-character separator
Split(s, sep) ==
    LET f[i \in Nat] ==   \* the fields of the text from position i on
            LET j == SkipUntil(s, i, {sep})
            IN  IF j > Len(s) THEN <<SubSeq(s, i, Len(s))>>
                ELSE <<SubSeq(s, i, j - 1)>> \o f[j + 1]
    IN  f[1]

\* str.split() : the maximal runs of non-whitespace characters
SplitWs(s) ==
    LET f[i \in Nat] ==
            LET a == SkipWhile(s, i, SpaceChars)
                b == SkipUntil(s, a, SpaceChars)
            IN  IF a > Len(s) THEN <<>>
                ELSE <<SubSeq(s, a, b - 1)>> \o f[b]
    IN  f[1]

\* str.strip()
Strip(s) ==
    LET a == SkipWhile(s, 1, SpaceChars)
        back[j \in Nat] == IF j >= 1 /\ Ch(s, j) \in SpaceChars THEN back[j - 1] ELSE j
    IN  IF a > Len(s) THEN "" ELSE SubSeq(s, a, back[Len(s)])

DigitVal(c) ==
    CASE c = "0" -> 0 [] c = "1" -> 1 [] c = "2" -> 2 [] c = "3" -> 3
      [] c = "4" -> 4 [] c = "5" -> 5 [] c = "6" -> 6 [] c = "7" -> 7
      [] c = "8" -> 8 [] c = "9" -> 9

IsDigits(s) == Len(s) > 0 /\ \A i \in 1..Len(s) : Ch(s, i) \in Digits

\* int(s) of a string of decimal digits
ToInt(s) ==
    LET f[i \in Nat] == IF i = 0 THEN 0 ELSE 10 * f[i - 1] + DigitVal(Ch(s, i))
    IN  f[Len(s)]

Pow10(n) ==
    LET f[i \in Nat] == IF i = 0 THEN 1 ELSE 10 * f[i - 1] IN f[n]

\* the set of the elements of a sequence
Range(f) == {f[i] : i \in DOMAIN f}

\* the non-empty lines of a text, in order
NonEmptyLines(s) == SelectSeq(Split(s, "\n"), LAMBDA l : Len(l) > 0)

\* the value of F at v, with v computed once
With(v, F(_)) == CHOOSE r \in {F(x) : x \in {v}} : TRUE

-----------------------------------------------------------------------------
(* Values of data frame cells                                              *)

\* numpy.nan
NaN == [k |-> "nan"]

\* an integer cell
Num(n) == [k |-> "num", n |-> n]

\* a cell of an object column that holds a string
Str(s) == [k |-> "str", s |-> s]

\* a float cell, the rational num / den (den > 0)
Frac(n, d) == [k |-> "frac", num |-> n, den |-> d]

\* x['number'].sum() of a column of integer cells
SumNumber(rows) ==
    LET f[i \in Nat] == IF i = 0 THEN 0 ELSE rows[i].number.n + f[i - 1]
    IN  f[Len(rows)]

\* the three outcomes of a parser: a data frame, None, or an exception
DataFrame(rows) == [kind |-> "df", rows |-> rows, err |-> ""]

None == [kind |-> "none", rows |-> <<>>, err |-> ""]

Raise(e) == [kind |-> "raise", rows |-> <<>>, err |-> e]

-----------------------------------------------------------------------------
(* _report_to_stats_v4                                                     *)

\* the pattern up to the group failed_text
PatternV4 ==
    <<L("ZMWs input"), P(SpaceChars), L("(A)"), P(SpaceChars), L(":"),
      P(SpaceChars), P(Digits), L("\n"),
      L("ZMWs generating CCS"), P(SpaceChars), L("(B)"), P(SpaceChars), L(":"),
      P(SpaceChars), P(Digits), L(" "), N(SpaceChars), L("\n"),
      L("ZMWs filtered"), P(SpaceChars), L("(C)"), P(SpaceChars), L(":"),
      P(SpaceChars), P(Digits), L(" "), N(SpaceChars), L("\n"),
      L("\n"),
      L("Exclusive ZMW counts for (C):\n")>>

\* one line of the group failed_text: [\w \-]+: \d+ \S+\n
ExclLine == <<P(LabelChars), L(": "), P(Digits), L(" "), N(SpaceChars), L("\n")>>

\* reportmatch.search(report) of _report_to_stats_v4: n_generated is the
\* 15th element of the pattern, failed_text the greedy repetition of ExclLine
MatchV4(s) ==
    With(MatchAt(s, PatternV4, 1), LAMBDA ps :
        IF ps[Len(ps)] = 0 THEN [ok |-> FALSE, n_generated |-> "", failed_text |-> ""]
        ELSE With(Repeat(s, ExclLine, ps[Len(ps)]), LAMBDA e :
            IF e > ps[Len(ps)] /\ AtEnd(s, e)
            THEN [ok |-> TRUE,
                  n_generated |-> SubSeq(s, ps[15], ps[16] - 1),
                  failed_text |-> SubSeq(s, ps[Len(ps)], e - 1)]
            ELSE [ok |-> FALSE, n_generated |-> "", failed_text |-> ""]))

\* number / number.sum(); 0 / 0 is nan
Divide(n, total) == IF total = 0 THEN NaN ELSE Frac(n, total)

\* the rows of a data frame of status and number, with their fraction
AssignFraction(records) ==
    With(records, LAMBDA x :
        With(SumNumber(x), LAMBDA total :
            [i \in 1..Len(x) |->
                [status |-> x[i].status,
                 number |-> x[i].number,
                 fraction |-> Divide(x[i].number.n, total)]]))

\* _report_to_stats_v4 without the .strip() of the label
_report_to_stats_v4_nostrip(s) ==
    With(MatchV4(s), LAMBDA m :
        IF ~m.ok THEN None
        ELSE With(NonEmptyLines(m.failed_text), LAMBDA lines :
            DataFrame(AssignFraction(
                <<[status |-> "ZMWs generating CCS",
                   number |-> Num(ToInt(m.n_generated))]>> \o
                [i \in 1..Len(lines) |->
                    [status |-> Split(lines[i], ":")[1],
                     number |-> Num(ToInt(SplitWs(Split(lines[i], ":")[2])[1]))]]))))

_report_to_stats_v4(s) ==
    With(MatchV4(s), LAMBDA m :
        IF ~m.ok THEN None
        ELSE With(NonEmptyLines(m.failed_text), LAMBDA lines :
            DataFrame(AssignFraction(
                <<[status |-> "ZMWs generating CCS",
                   number |-> Num(ToInt(m.n_generated))]>> \o
                [i \in 1..Len(lines) |->
                    [status |-> Strip(Split(lines[i], ":")[1]),
                     number |-> Num(ToInt(SplitWs(Split(lines[i], ":")[2])[1]))]]))))

-----------------------------------------------------------------------------
(* _report_to_stats_v3                                                     *)

\* one line of a block: .+\n
AnyLine == <<N({"\n"}), L("\n")>>

\* reportmatch.search(report) of _report_to_stats_v3
MatchV3(s) ==
    With(Lit(s, 1, "ZMW Yield\n"), LAMBDA a1 :
    With(IF a1 = 0 THEN 0 ELSE Repeat(s, AnyLine, a1), LAMBDA a2 :
    With(IF a2 > a1 THEN Lit(s, a2, "\n\n") ELSE 0, LAMBDA a3 :
    With(Lit(s, a3, "Subread Yield\n"), LAMBDA b1 :
    With(IF b1 = 0 THEN 0 ELSE Repeat(s, AnyLine, b1), LAMBDA b2 :
        LET sub == b1 > 0 /\ b2 > b1 /\ AtEnd(s, b2)
            ok == a3 > 0 /\ (sub \/ AtEnd(s, a3))
        IN  [ok |-> ok,
             zmw |-> IF ok THEN SubSeq(s, a1, a2 - 1) ELSE "",
             subread |-> IF ok /\ sub THEN SubSeq(s, b1, b2 - 1) ELSE ""])))))

\* a decimal numeral that read_csv and float() take as a number
IsDecimal(s) ==
    /\ \A i \in 1..Len(s) : Ch(s, i) \in Digits \cup {"."}
    /\ Cardinality({i \in 1..Len(s) : Ch(s, i) = "."}) <= 1
    /\ \E i \in 1..Len(s) : Ch(s, i) \in Digits

\* float(s) of a decimal numeral, as a rational
ToFloat(s) ==
    With(SkipUntil(s, 1, {"."}), LAMBDA dot :
        Frac(ToInt(SubSeq(s, 1, dot - 1) \o SubSeq(s, dot + 1, Len(s))),
             Pow10(IF dot > Len(s) THEN 0 ELSE Len(s) - dot)))

\* pd.read_csv(text, names=['status', 'number', 'percent']) on lines of at
\* most three unquoted fields: an empty or absent field is nan, a column
\* whose fields are all numerals (or nan) is numeric, any other column
\* keeps its fields as strings
read_csv(text) ==
    With([i \in 1..Len(NonEmptyLines(text)) |->
            With(Split(NonEmptyLines(text)[i], ","), LAMBDA f :
                [j \in 1..3 |-> IF j <= Len(f) THEN f[j] ELSE ""])],
         LAMBDA fields :
        LET numberIsInt ==
                \A i \in 1..Len(fields) : fields[i][2] = "" \/ IsDigits(fields[i][2])
            percentIsNum ==
                \A i \in 1..Len(fields) : fields[i][3] = "" \/ IsDecimal(fields[i][3])
        IN  [i \in 1..Len(fields) |->
                [status |-> fields[i][1],
                 number |-> IF fields[i][2] = "" THEN NaN
                            ELSE IF numberIsInt THEN Num(ToInt(fields[i][2]))
                            ELSE Str(fields[i][2]),
                 percent |-> IF fields[i][3] = "" THEN NaN
                             ELSE IF percentIsNum THEN ToFloat(fields[i][3])
                             ELSE Str(fields[i][3])]])

\* x.percent.str.slice(None, -1).astype(float) / 100 of one cell
PercentToFraction(cell) ==
    IF cell = NaN THEN NaN
    ELSE With(ToFloat(SubSeq(cell.s, 1, Len(cell.s) - 1)), LAMBDA f :
            Frac(f.num, f.den * 100))

\* the data frame of a csv text: AttributeError for .str of a numeric
\* column, ValueError for astype(float) of a string that is no numeral
AssignPercentFraction(csv) ==
    IF \A i \in 1..Len(csv) : csv[i].percent.k # "str"
    THEN Raise("AttributeError")
    ELSE IF \E i \in 1..Len(csv) :
                /\ csv[i].percent.k = "str"
                /\ ~IsDecimal(SubSeq(csv[i].percent.s, 1, Len(csv[i].percent.s) - 1))
    THEN Raise("ValueError")
    ELSE DataFrame([i \in 1..Len(csv) |->
                      [status |-> csv[i].status,
                       number |-> csv[i].number,
                       fraction |-> PercentToFraction(csv[i].percent)]])

\* _report_to_stats_v3 that reads the block 'Subread Yield' when there is one
_report_to_stats_v3_subread(s, stat_type) ==
    With(MatchV3(s), LAMBDA m :
        IF ~m.ok THEN None
        ELSE With(read_csv(IF m.subread = "" THEN m.zmw ELSE m.subread),
                  LAMBDA csv : AssignPercentFraction(csv)))

_report_to_stats_v3(s, stat_type) ==
    With(MatchV3(s), LAMBDA m :
        IF ~m.ok THEN None
        ELSE With(read_csv(IF stat_type = "zmw" THEN m.zmw ELSE m.subread),
                  LAMBDA csv : AssignPercentFraction(csv)))

-----------------------------------------------------------------------------
(* report_to_stats                                                         *)

report_to_stats(s) ==
    With(_report_to_stats_v4(s), LAMBDA v4 :
        IF v4 # None THEN v4
        ELSE With(_report_to_stats_v3(s, "zmw"), LAMBDA v3 :
            IF v3 # None THEN v3 ELSE Raise("IOError")))

-----------------------------------------------------------------------------
(* The report files considered                                             *)

\* bound: the most lines of the section 'Exclusive ZMW counts'
MaxExcl == 2

\* bound: the most lines of the block 'ZMW Yield'
MaxRows == 2

\* all sequences over S of length lo..hi
SeqsOf(S, lo, hi) == UNION {[1..n -> S] : n \in lo..hi}

\* the concatenation of a sequence of strings
Concat(ss) ==
    LET f[i \in Nat] == IF i = 0 THEN "" ELSE f[i - 1] \o ss[i] IN f[Len(ss)]

CountStrs == {"0", "1", "2"}

PrintedPercents == {"(0.00%)", "(75%)"}

\* lines after 'Exclusive ZMW counts'; the last one has no count
ExclusiveLines(pct) ==
    {label \o ": " \o c \o " " \o pct \o "\n" :
        label \in {"No usable subreads  ", "Below SNR"}, c \in CountStrs}
    \cup {"Unknown error: x " \o pct \o "\n"}

ReportsA ==
    {"ZMWs input (A) : 4\n"
     \o "ZMWs generating CCS (B)  : " \o g \o " " \o pct \o "\n"
     \o "ZMWs filtered (C) : 2 " \o pct \o "\n"
     \o "\n"
     \o "Exclusive ZMW counts for (C):\n"
     \o Concat(ls) \o tail :
        g \in CountStrs, pct \in PrintedPercents,
        ls \in UNION {SeqsOf(ExclusiveLines(p), 0, MaxExcl) : p \in PrintedPercents},
        tail \in {"", "\n", "\n\n"}}

\* lines of a yield block: three of the shape status,number,percent% and
\* four that are not
YieldLines ==
    {"Success -- CCS generated,2,50.00%\n",
     "Success (with retry),1,25%\n",
     "Failed -- Below SNR threshold,1,0.5%\n",
     "Failed -- Other,1,50x\n",
     "Failed,b,5%\n",
     "Failed,3,5\n",
     "junk\n"}

SubreadBlocks ==
    {"", "Subread Yield\nSuccess - Used for CCS,9,89.06%\n", "Subread Yield\n",
     "Subread Yield\nFailed -- Other,7,7.54\n"}

ReportsB ==
    {"ZMW Yield\n" \o Concat(ls) \o gap \o sub :
        ls \in SeqsOf(YieldLines, 0, MaxRows),
        gap \in {"\n", "\n\n", "\n\n\n"},
        sub \in SubreadBlocks}

Reports == ReportsA \cup ReportsB \cup {"", "no report\n"}

-----------------------------------------------------------------------------
(* report_to_stats as the loop `for func in [v4, v3]`                      *)

InitReport ==
    /\ report \in Reports
    /\ rstage = "v4"
    /\ rresult = None

\* func = _report_to_stats_v4
TryV4 ==
    /\ rstage = "v4"
    /\ \E r \in {_report_to_stats_v4(report)} :
          IF r # None
          THEN rstage' = "returned" /\ rresult' = r
          ELSE rstage' = "v3" /\ UNCHANGED rresult
    /\ UNCHANGED <<report, cvars, svars, mvars, avars>>

\* func = _report_to_stats_v3
TryV3 ==
    /\ rstage = "v3"
    /\ \E r \in {_report_to_stats_v3(report, "zmw")} :
          CASE r.kind = "df" -> rstage' = "returned" /\ rresult' = r
            [] r.kind = "raise" -> rstage' = "raised" /\ rresult' = r
            [] OTHER -> rstage' = "nomatch" /\ UNCHANGED rresult
    /\ UNCHANGED <<report, cvars, svars, mvars, avars>>

\* raise IOError(f"Cannot match report in {reportfile}")
RaiseCannotMatch ==
    /\ rstage = "nomatch"
    /\ rstage' = "raised"
    /\ rresult' = Raise("IOError")
    /\ UNCHANGED <<report, cvars, svars, mvars, avars>>

NextReport == TryV4 \/ TryV3 \/ RaiseCannotMatch

-----------------------------------------------------------------------------
(* Properties of report_to_stats                                           *)

\* report_to_stats has returned a data frame / has ended
Returned == rstage = "returned"
ReportDone == rstage \in {"returned", "raised"}

\* a line of the shape status,number,percent%
RowShape(line) ==
    LET f == Split(line, ",")
    IN  /\ Len(f) = 3
        /\ Len(f[1]) > 0
        /\ IsDigits(f[2])
        /\ Len(f[3]) > 1
        /\ Ch(f[3], Len(f[3])) = "%"
        /\ IsDecimal(SubSeq(f[3], 1, Len(f[3]) - 1))

\* the text has the anchors of layout A and its lines their shape
LayoutA(s) == MatchV4(s).ok

\* the text has the anchors of layout B and every row line its shape
LayoutB(s) ==
    /\ MatchV3(s).ok
    /\ \A l \in Range(NonEmptyLines(MatchV3(s).zmw)) : RowShape(l)
    /\ \A l \in Range(NonEmptyLines(MatchV3(s).subread)) : RowShape(l)

\* the lines of the text, and the lines of the block that starts after the
\* first line equal to anchor and ends at the next empty line
TextLines(s) == Split(s, "\n")

BlockAfter(s, anchor) ==
    With(TextLines(s), LAMBDA ls :
        LET at == {i \in 1..Len(ls) : ls[i] = anchor}
            first == CHOOSE i \in at : \A j \in at : i <= j
            empty == {i \in (first + 1)..Len(ls) : ls[i] = ""}
            last == IF empty = {} THEN Len(ls)
                    ELSE (CHOOSE i \in empty : \A j \in empty : i <= j) - 1
        IN  IF at = {} THEN <<>> ELSE SubSeq(ls, first + 1, last))

\* the text after the first ':' of a line, up to the next blank
AfterColon(line) == SplitWs(SubSeq(line, SkipUntil(line, 1, {":"}) + 1, Len(line)))[1]

BeforeColon(line) == SubSeq(line, 1, SkipUntil(line, 1, {":"}) - 1)

AddFrac(a, b) == Frac(a.num * b.den + b.num * a.den, a.den * b.den)

SumFraction(rows) ==
    LET f[i \in Nat] == IF i = 0 THEN Frac(0, 1) ELSE AddFrac(f[i - 1], rows[i].fraction)
    IN  f[Len(rows)]

FractionsSumToOne(rows) ==
    /\ \A i \in 1..Len(rows) : rows[i].fraction.k = "frac"
    /\ With(SumFraction(rows), LAMBDA x : x.num = x.den)

\* C6: a report text that has neither the full shape of layout A nor that of
\* layout B makes report_to_stats raise IOError; no table is returned for it.
C6_NoBestEffortParse ==
    (ReportDone /\ ~LayoutA(report) /\ ~LayoutB(report))
        => rresult = Raise("IOError")

\* C7: the fractions of the rows of every report accepted as layout A sum
\* to 1, also when every count of the report is 0.
C7_FractionsSumToOne ==
    (Returned /\ LayoutA(report)) => FractionsSumToOne(rresult.rows)

\* C8: a report accepted as layout A with k exclusive lines gives k + 1 rows:
\* the row "ZMWs generating CCS" with the generating count first, then the
\* trimmed label and the count of each exclusive line in file order; the
\* totals 'ZMWs input' and 'ZMWs filtered' give no row.
C8_LayoutARows ==
    (Returned /\ LayoutA(report)) =>
        LET excl == BlockAfter(report, "Exclusive ZMW counts for (C):")
            rows == rresult.rows
        IN  /\ Len(rows) = Len(excl) + 1
            /\ rows[1].status = "ZMWs generating CCS"
            /\ rows[1].number = Num(ToInt(AfterColon(TextLines(report)[2])))
            /\ \A i \in 1..Len(excl) :
                  /\ rows[i + 1].status = Strip(BeforeColon(excl[i]))
                  /\ rows[i + 1].number = Num(ToInt(AfterColon(excl[i])))
            /\ \A i \in 1..Len(rows) :
                  rows[i].status \notin {"ZMWs input", "ZMWs filtered"}

C8_Witness ==
    /\ Returned /\ LayoutA(report)
    /\ Len(rresult.rows) = 3
    /\ rresult.rows[2].status = "No usable subreads"
    /\ rresult.rows[3].number = Num(2)

\* C9: a report accepted as layout B gives one row per line of the block
\* 'ZMW Yield', in file order, and none from the block 'Subread Yield'; when
\* the lines have the shape status,number,percent% each row has the printed
\* count as number and the printed percentage / 100 as fraction.
C9_LayoutBRows ==
    (Returned /\ MatchV3(report).ok) =>
        LET zmw == BlockAfter(report, "ZMW Yield")
            rows == rresult.rows
        IN  /\ Len(rows) = Len(zmw)
            /\ \A i \in 1..Len(zmw) : rows[i].status = Split(zmw[i], ",")[1]
            /\ LayoutB(report) =>
                 \A i \in 1..Len(zmw) :
                    LET f == Split(zmw[i], ",")
                        pct == ToFloat(SubSeq(f[3], 1, Len(f[3]) - 1))
                    IN  /\ rows[i].number = Num(ToInt(f[2]))
                        /\ rows[i].fraction.k = "frac"
                        /\ rows[i].fraction.num * pct.den * 100
                              = pct.num * rows[i].fraction.den

C9_Witness ==
    /\ Returned /\ LayoutB(report)
    /\ BlockAfter(report, "Subread Yield") # <<>>
    /\ Len(rresult.rows) = 2
    /\ rresult.rows[1].number = Num(2)
    /\ rresult.rows[2].fraction = Frac(5, 1000)

\* the text is the line 'ZMW Yield', one or more lines status,number,percent%
\* and one blank line, alone or followed by the line 'Subread Yield' and one
\* or more lines of the same shape
SingleBlankLine(s) ==
    With(TextLines(s), LAMBDA ls :
        LET zmw == BlockAfter(s, "ZMW Yield")
            rest == SubSeq(ls, Len(zmw) + 3, Len(ls))
        IN  /\ Len(ls) >= Len(zmw) + 3
            /\ ls[1] = "ZMW Yield"
            /\ zmw # <<>>
            /\ \A i \in 1..Len(zmw) : RowShape(zmw[i])
            /\ ls[Len(zmw) + 2] = ""
            /\ \/ rest = <<"">>
               \/ /\ Len(rest) >= 3
                  /\ rest[1] = "Subread Yield"
                  /\ rest[Len(rest)] = ""
                  /\ \A i \in 2..(Len(rest) - 1) : RowShape(rest[i]))

\* C16: a text of the line 'ZMW Yield', rows status,number,percent% and a
\* single blank line, alone or followed by a block 'Subread Yield', is read
\* as layout B into one row per line of the block 'ZMW Yield'.
C16_SingleBlankLine ==
    (ReportDone /\ SingleBlankLine(report)) =>
        /\ Returned
        /\ LET zmw == BlockAfter(report, "ZMW Yield")
           IN  /\ Len(rresult.rows) = Len(zmw)
               /\ \A i \in 1..Len(zmw) :
                     rresult.rows[i].status = Split(zmw[i], ",")[1]

-----------------------------------------------------------------------------
(* get_ccs_stats                                                           *)

\* passes = None, passes = [...]
NonePasses == [none |-> TRUE, vals |-> <<>>]

ListPasses(vals) == [none |-> FALSE, vals |-> vals]

\* the group 'pass' of a match of passmatch whose tag starts at position i
\* of the comment, "" if there is no such match
PassAt(comment, tag, i) ==
    With(MatchEnd(comment, <<L(tag \o ":i:"), P(Digits)>>, i), LAMBDA e :
        IF e > 0 /\ (e = Len(comment) + 1 \/ Ch(comment, e) \in SpaceChars)
        THEN SubSeq(comment, i + Len(tag) + 3, e - 1)
        ELSE "")

\* passmatch.search(rec.comment): the group 'pass' of the leftmost match of
\* (?:^|\s)<tag>:i:(\d+)(?:\s|$), "" if the comment has no match
passmatch_search(comment, tag) ==
    LET starts == {i \in 1..Len(comment) :
                      /\ i = 1 \/ Ch(comment, i - 1) \in SpaceChars
                      /\ PassAt(comment, tag, i) # ""}
    IN  IF starts = {} THEN ""
        ELSE PassAt(comment, tag, CHOOSE i \in starts : \A j \in starts : i <= j)

\* accuracy of one base in thousandths, 1 - 10 ** (-Q / 10) for the quality
\* characters '!' (Q0), '+' (Q10), '5' (Q20) and '~' (Q93)
BaseAccuracy(c) ==
    CASE c = "!" -> 0 [] c = "+" -> 900 [] c = "5" -> 990 [] c = "~" -> 1000

\* alignparse.utils.qvals_to_accuracy: the mean accuracy over the bases
qvals_to_accuracy(quality) ==
    LET f[i \in Nat] == IF i = 0 THEN 0 ELSE f[i - 1] + BaseAccuracy(Ch(quality, i))
    IN  IF Len(quality) = 0 THEN NaN ELSE Frac(f[Len(quality)], 1000 * Len(quality))

\* the lists before the loop
CcsStart(tag) ==
    [passes |-> IF tag # "" THEN ListPasses(<<>>) ELSE NonePasses,
     length |-> <<>>,
     accuracy |-> <<>>]

\* the body of the loop where a read without annotation is skipped
CcsRecord_skip(st, rec, tag) ==
    [length |-> Append(st.length, Len(rec.sequence)),
     accuracy |-> Append(st.accuracy, qvals_to_accuracy(rec.quality)),
     passes |->
        IF st.passes.none \/ passmatch_search(rec.comment, tag) = "" THEN st.passes
        ELSE ListPasses(Append(st.passes.vals, passmatch_search(rec.comment, tag)))]

\* the body of the loop `for rec in pysam.FastxFile(fastqfile)`
CcsRecord(st, rec, tag) ==
    [length |-> Append(st.length, Len(rec.sequence)),
     accuracy |-> Append(st.accuracy, qvals_to_accuracy(rec.quality)),
     passes |->
        IF st.passes.none THEN st.passes
        ELSE IF rec.comment = "" THEN NonePasses
        ELSE With(passmatch_search(rec.comment, tag), LAMBDA m :
                IF m = "" THEN NonePasses
                ELSE ListPasses(Append(st.passes.vals, m)))]

\* the conversion to arrays after the loop
CcsReturn(st) ==
    [st EXCEPT !.passes =
        IF st.passes.none THEN NonePasses
        ELSE ListPasses([i \in 1..Len(st.passes.vals) |-> ToInt(st.passes.vals[i])])]

get_ccs_stats(records, tag) ==
    LET f[i \in Nat] ==
            IF i = 0 THEN CcsStart(tag)
            ELSE With(f[i - 1], LAMBDA st : CcsRecord(st, records[i], tag))
    IN  With(f[Len(records)], LAMBDA st : CcsReturn(st))

\* bound: the most reads of a FASTQ file
MaxReads == 3

\* reads with a pass annotation, without a comment, with a malformed
\* annotation and with the tag inside a longer word
FastqRecords ==
    {[comment |-> "np:i:18", sequence |-> "ACGT", quality |-> "~~~5"],
     [comment |-> "rq:f:1 np:i:5", sequence |-> "AC", quality |-> "~+"],
     [comment |-> "zm:i:3 np:i:07", sequence |-> "ACG", quality |-> "~~~"],
     [comment |-> "", sequence |-> "AC", quality |-> "~~"],
     [comment |-> "np:i:x", sequence |-> "A", quality |-> "!"],
     [comment |-> "snp:i:4", sequence |-> "AC", quality |-> "55"]}

FastqFiles == SeqsOf(FastqRecords, 0, MaxReads)

InitCcs ==
    /\ fastq \in FastqFiles
    /\ pass_tag \in {"np", "zm", ""}
    /\ ccs = CcsStart(pass_tag)
    /\ cstage = "loop"

\* one iteration of the loop over the records
ReadRecord ==
    /\ cstage = "loop"
    /\ Len(ccs.length) < Len(fastq)
    /\ ccs' = CcsRecord(ccs, fastq[Len(ccs.length) + 1], pass_tag)
    /\ UNCHANGED <<fastq, pass_tag, cstage, rvars, svars, mvars, avars>>

\* the end of the loop and the return of CCS_Stats
ReturnStats ==
    /\ cstage = "loop"
    /\ Len(ccs.length) = Len(fastq)
    /\ ccs' = CcsReturn(ccs)
    /\ cstage' = "done"
    /\ UNCHANGED <<fastq, pass_tag, rvars, svars, mvars, avars>>

NextCcs == ReadRecord \/ ReturnStats

-----------------------------------------------------------------------------
(* Properties of get_ccs_stats                                             *)

\* the words of a comment that are <tag>:i:<digits>
Annotations(comment, tag) ==
    SelectSeq(SplitWs(comment), LAMBDA w :
        /\ tag # ""
        /\ Len(w) > Len(tag) + 3
        /\ SubSeq(w, 1, Len(tag) + 3) = tag \o ":i:"
        /\ IsDigits(SubSeq(w, Len(tag) + 4, Len(w))))

\* the number the first annotation of the comment gives
Annotated(comment, tag) ==
    With(Annotations(comment, tag)[1], LAMBDA w :
        ToInt(SubSeq(w, Len(tag) + 4, Len(w))))

\* C10: passes is None or has one integer per read: it is None when some
\* read, at any position, has no comment or no well-formed annotation
\* <pass_tag>:i:<digits>, and otherwise holds the annotated value of each
\* read; length and accuracy always have one entry per read.
C10_PassesAllOrNothing ==
    cstage = "done" =>
        /\ Len(ccs.length) = Len(fastq)
        /\ Len(ccs.accuracy) = Len(fastq)
        /\ \A i \in 1..Len(fastq) : ccs.length[i] = Len(fastq[i].sequence)
        /\ ccs.passes.none \/ Len(ccs.passes.vals) = Len(fastq)
        /\ (\E i \in 1..Len(fastq) : Annotations(fastq[i].comment, pass_tag) = <<>>)
              => ccs.passes = NonePasses
        /\ (pass_tag # "" /\ \A i \in 1..Len(fastq) :
                                Annotations(fastq[i].comment, pass_tag) # <<>>)
              => /\ ~ccs.passes.none
                 /\ \A i \in 1..Len(fastq) :
                       ccs.passes.vals[i] = Annotated(fastq[i].comment, pass_tag)

\* a file whose first read is annotated and whose second is not, followed
\* by an annotated read
C10_Witness ==
    /\ cstage = "done"
    /\ Len(fastq) = 3
    /\ pass_tag = "np"
    /\ Annotations(fastq[1].comment, pass_tag) # <<>>
    /\ Annotations(fastq[2].comment, pass_tag) = <<>>
    /\ Annotations(fastq[3].comment, pass_tag) # <<>>
    /\ ccs.passes = NonePasses

-----------------------------------------------------------------------------
(* Summary.__init__                                                        *)

\* an exception: its type, the kind of its message and what the message
\* names (file paths and counts)
Err(type, msg, fastqfile, nfastq, reportfile, nreport) ==
    [type |-> type, msg |-> msg, fastqfile |-> fastqfile, nfastq |-> nfastq,
     reportfile |-> reportfile, nreport |-> nreport]

NoError == Err("", "", "", 0, "", 0)

\* a file that does not exist, a FASTQ file, a report file
NoFile == [isfile |-> FALSE, reads |-> <<>>, text |-> ""]

FastqFile(reads) == [isfile |-> TRUE, reads |-> reads, text |-> ""]

ReportFile(text) == [isfile |-> TRUE, reads |-> <<>>, text |-> text]

\* a match that also takes the row of the generating count as a success
IsSuccess_generating(status) ==
    \/ Len(status) >= 7 /\ SubSeq(status, 1, 7) = "Success"
    \/ status = "ZMWs generating CCS"

\* status.str.match("^Success")
IsSuccess(status) == Len(status) >= 7 /\ SubSeq(status, 1, 7) = "Success"

\* zmw_stats.query('status.str.match("^Success")')['number'].sum()
SuccessSum(rows) == SumNumber(SelectSeq(rows, LAMBDA r : IsSuccess(r.status)))

\* a comparison that only complains when the report has more
Differ_less(nreads, nccs) == nreads < nccs

\* len(self.length) != zmw_stats_nccs
Differ(nreads, nccs) == nreads # nccs

\* the call Summary(name, fastqfile, reportfile) before its first statement;
\* reportfile "" stands for None
SummaryCall(name, fastqfile, reportfile) ==
    [pc |-> "fastq",
     name |-> name, fastqfile |-> fastqfile, reportfile |-> reportfile,
     self |-> [name |-> "", fastqfile |-> "", reportfile |-> "",
               passes |-> NonePasses, accuracy |-> <<>>, length |-> <<>>,
               zmw_stats |-> None],
     err |-> NoError]

\* lines 75-78: the FASTQ file must exist
SummaryFastq(st, fs) ==
    IF ~fs[st.fastqfile].isfile
    THEN [st EXCEPT !.pc = "raised",
                    !.self.name = st.name, !.self.fastqfile = st.fastqfile,
                    !.err = Err("IOError", "cannot find fastqfile",
                                st.fastqfile, 0, "", 0)]
    ELSE [st EXCEPT !.pc = "stats",
                    !.self.name = st.name, !.self.fastqfile = st.fastqfile]

\* lines 80-85: the statistics of the reads
SummaryStats(st, fs) ==
    With(get_ccs_stats(fs[st.fastqfile].reads, "np"), LAMBDA ccs_stats :
        [st EXCEPT !.pc = "report",
                   !.self.passes = ccs_stats.passes,
                   !.self.accuracy = ccs_stats.accuracy,
                   !.self.length = ccs_stats.length])

\* lines 87-90 and 102-104: with a report file, it must exist
SummaryReport(st, fs) ==
    IF st.reportfile = ""
    THEN [st EXCEPT !.pc = "done"]
    ELSE IF ~fs[st.reportfile].isfile
    THEN [st EXCEPT !.pc = "raised", !.self.reportfile = st.reportfile,
                    !.err = Err("IOError", "cannot find reportfile",
                                "", 0, st.reportfile, 0)]
    ELSE [st EXCEPT !.pc = "parse", !.self.reportfile = st.reportfile]

\* line 91: self.zmw_stats = report_to_stats(self.reportfile)
SummaryParse(st, fs) ==
    With(report_to_stats(fs[st.reportfile].text), LAMBDA r :
        IF r.kind = "raise"
        THEN [st EXCEPT !.pc = "raised",
                        !.err = IF r.err = "IOError"
                                THEN Err("IOError", "Cannot match report",
                                         "", 0, st.reportfile, 0)
                                ELSE Err(r.err, "", "", 0, "", 0)]
        ELSE [st EXCEPT !.pc = "check", !.self.zmw_stats = r])

\* lines 92-100: the number of reads against the successes of the report;
\* the message is built from len(self.passes), a TypeError when passes is None
SummaryCheck(st, fs) ==
    With(SuccessSum(st.self.zmw_stats.rows), LAMBDA zmw_stats_nccs :
        IF Differ(Len(st.self.length), zmw_stats_nccs)
        THEN [st EXCEPT !.pc = "raised",
                        !.err = IF st.self.passes.none
                                THEN Err("TypeError", "", "", 0, "", 0)
                                ELSE Err("ValueError", "differ on number CCSs",
                                         st.fastqfile, Len(st.self.passes.vals),
                                         st.reportfile, zmw_stats_nccs)]
        ELSE [st EXCEPT !.pc = "done"])

\* the next statement of __init__
SummaryStep(st, fs) ==
    CASE st.pc = "fastq" -> SummaryFastq(st, fs)
      [] st.pc = "stats" -> SummaryStats(st, fs)
      [] st.pc = "report" -> SummaryReport(st, fs)
      [] st.pc = "parse" -> SummaryParse(st, fs)
      [] st.pc = "check" -> SummaryCheck(st, fs)
      [] OTHER -> st

\* Summary(name, fastqfile, reportfile) run to its end: pc is "done" with
\* the object self, or "raised" with the exception err
Summary(name, fastqfile, reportfile, fs) ==
    LET f[n \in Nat] ==
            IF n = 0 THEN SummaryCall(name, fastqfile, reportfile)
            ELSE With(f[n - 1], LAMBDA st : SummaryStep(st, fs))
    IN  f[5]

\* the report files considered for one Summary: layout B with 2, 3, 1 and
\* no successes, layout A, a text of neither layout, a row pandas rejects
SummaryReports ==
    {"ZMW Yield\nSuccess -- CCS generated,2,50.00%\nFailed -- Below SNR threshold,1,0.5%\n\n\n",
     "ZMW Yield\nSuccess -- CCS generated,2,50.00%\nSuccess (with retry),1,25%\n\n\n",
     "ZMW Yield\nSuccess (with retry),1,25%\n\n\nSubread Yield\nSuccess - Used for CCS,9,89.06%\n",
     "ZMW Yield\nFailed -- Below SNR threshold,1,0.5%\n\n\n",
     "ZMWs input (A) : 4\nZMWs generating CCS (B)  : 2 (50%)\nZMWs filtered (C) : 2 (50%)\n\nExclusive ZMW counts for (C):\nBelow SNR: 2 (100%)\n",
     "no report\n",
     "ZMW Yield\nFailed,3,5\n\n\n"}

InitSummary ==
    /\ \E reads \in {NoFile} \cup {FastqFile(r) : r \in FastqFiles},
          rep \in {NoFile} \cup {ReportFile(t) : t \in SummaryReports} :
            sfs = [p \in {"run.fastq", "report.txt"} |->
                      IF p = "run.fastq" THEN reads ELSE rep]
    /\ \E reportfile \in {"report.txt", ""} :
            summ = SummaryCall("run", "run.fastq", reportfile)

CheckFastq ==
    /\ summ.pc = "fastq"
    /\ summ' = SummaryFastq(summ, sfs)
    /\ UNCHANGED <<sfs, rvars, cvars, mvars, avars>>

GetCcsStats ==
    /\ summ.pc = "stats"
    /\ summ' = SummaryStats(summ, sfs)
    /\ UNCHANGED <<sfs, rvars, cvars, mvars, avars>>

CheckReport ==
    /\ summ.pc = "report"
    /\ summ' = SummaryReport(summ, sfs)
    /\ UNCHANGED <<sfs, rvars, cvars, mvars, avars>>

ParseReport ==
    /\ summ.pc = "parse"
    /\ summ' = SummaryParse(summ, sfs)
    /\ UNCHANGED <<sfs, rvars, cvars, mvars, avars>>

CrossCheck ==
    /\ summ.pc = "check"
    /\ summ' = SummaryCheck(summ, sfs)
    /\ UNCHANGED <<sfs, rvars, cvars, mvars, avars>>

NextSummary == CheckFastq \/ GetCcsStats \/ CheckReport \/ ParseReport \/ CrossCheck

-----------------------------------------------------------------------------
(* Properties of Summary.__init__                                          *)

\* the read file and the report both exist, the report parses, and the
\* report's successes are not the number of reads
CountsDiffer ==
    /\ summ.reportfile # ""
    /\ sfs[summ.fastqfile].isfile
    /\ sfs[summ.reportfile].isfile
    /\ report_to_stats(sfs[summ.reportfile].text).kind = "df"
    /\ SuccessSum(report_to_stats(sfs[summ.reportfile].text).rows)
          # Len(sfs[summ.fastqfile].reads)

\* C1: construction with a read file and a report completes only when the
\* sum of number over the parsed rows whose status begins with "Success" is
\* the number of reads; when they differ it fails and there is no Summary.
C1_CountsAgree ==
    /\ (summ.pc = "done" /\ summ.reportfile # "") =>
          SuccessSum(summ.self.zmw_stats.rows) = Len(sfs[summ.fastqfile].reads)
    /\ (summ.pc \in {"done", "raised"} /\ CountsDiffer) => summ.pc = "raised"

\* a file of two reads against a report with three successes
C1_Witness ==
    /\ summ.pc = "raised"
    /\ CountsDiffer
    /\ Len(sfs[summ.fastqfile].reads) = 2
    /\ SuccessSum(summ.self.zmw_stats.rows) = 3

\* C2: whenever the read count and the success count differ, construction
\* fails with the ValueError that names both file paths and both counts,
\* also when passes is None.
C2_ConsistencyError ==
    (summ.pc \in {"done", "raised"} /\ CountsDiffer) =>
        summ.err = Err("ValueError", "differ on number CCSs",
                       summ.fastqfile, Len(sfs[summ.fastqfile].reads),
                       summ.reportfile,
                       SuccessSum(report_to_stats(sfs[summ.reportfile].text).rows))

\* the read file exists and the report is a layout A report none of whose
\* exclusive-count labels begins with "Success"
LayoutANoSuccess ==
    /\ summ.reportfile # ""
    /\ sfs[summ.fastqfile].isfile
    /\ sfs[summ.reportfile].isfile
    /\ LayoutA(sfs[summ.reportfile].text)
    /\ \A l \in Range(NonEmptyLines(MatchV4(sfs[summ.reportfile].text).failed_text)) :
          ~(Len(Strip(l)) >= 7 /\ SubSeq(Strip(l), 1, 7) = "Success")

-----------------------------------------------------------------------------
(* Summaries.__init__                                                      *)

\* bound: the most runs (rows of df)
MaxRuns == 2

\* the files of the runs: a.fastq has two reads with np, b.fastq one read
\* without comment; a.txt reports 2 successes, b.txt 1; bad.txt is no report
SummariesFiles ==
    [p \in {"a.fastq", "b.fastq", "missing.fastq", "a.txt", "b.txt", "bad.txt"} |->
        CASE p = "a.fastq" ->
                FastqFile(<<[comment |-> "np:i:18", sequence |-> "ACGT", quality |-> "~~~5"],
                            [comment |-> "rq:f:1 np:i:5", sequence |-> "AC", quality |-> "~+"]>>)
          [] p = "b.fastq" ->
                FastqFile(<<[comment |-> "", sequence |-> "AC", quality |-> "~~"]>>)
          [] p = "a.txt" ->
                ReportFile("ZMW Yield\nSuccess -- CCS generated,2,50.00%\nFailed -- Below SNR threshold,1,0.5%\n\n\n")
          [] p = "b.txt" ->
                ReportFile("ZMW Yield\nSuccess (with retry),1,25%\n\n\n")
          [] p = "bad.txt" -> ReportFile("no report\n")
          [] OTHER -> NoFile]

\* rows of df: two runs that can be summarized, a run without FASTQ file,
\* a run whose report disagrees with its reads, and a second run named r1
\* whose report has no known layout
RunRows ==
    {[name |-> "r1", fastq |-> "a.fastq", report |-> "a.txt"],
     [name |-> "r2", fastq |-> "b.fastq", report |-> "b.txt"],
     [name |-> "r3", fastq |-> "missing.fastq", report |-> "a.txt"],
     [name |-> "r4", fastq |-> "a.fastq", report |-> "b.txt"],
     [name |-> "r1", fastq |-> "b.fastq", report |-> "bad.txt"]}

\* the columns of df with name_col, fastq_col and report_col ("" for None):
\* the defaults, no reports, a repeated column name, a column df lacks
ColumnChoices ==
    {[columns |-> {"name", "fastq", "report"},
      name_col |-> "name", fastq_col |-> "fastq", report_col |-> "report"],
     [columns |-> {"name", "fastq", "report"},
      name_col |-> "name", fastq_col |-> "fastq", report_col |-> ""],
     [columns |-> {"name", "fastq", "report"},
      name_col |-> "name", fastq_col |-> "name", report_col |-> "report"],
     [columns |-> {"name", "fastq"},
      name_col |-> "name", fastq_col |-> "fastq", report_col |-> "report"]}

CpuCounts == {1, 2}

NcpusChoices == {-1, 0, 1, 2}

\* df[col]
Column(col) == [i \in 1..Len(df.rows) |-> df.rows[i][col]]

\* Summary applied to the i-th elements of df[name_col], df[fastq_col] and
\* df[report_col] (or None)
RowSummary(i) ==
    Summary(Column(margs.name_col)[i], Column(margs.fastq_col)[i],
            IF margs.report_col = "" THEN "" ELSE Column(margs.report_col)[i],
            SummariesFiles)

RowCall(i) ==
    SummaryCall(Column(margs.name_col)[i], Column(margs.fastq_col)[i],
                IF margs.report_col = "" THEN "" ELSE Column(margs.report_col)[i])

ConfigError(msg) == Err("ValueError", msg, "", 0, "", 0)

InitSummaries ==
    /\ \E c \in ColumnChoices, rows \in SeqsOf(RunRows, 0, MaxRuns),
          n \in NcpusChoices :
            /\ df = [columns |-> c.columns, rows |-> rows]
            /\ margs = [name_col |-> c.name_col, fastq_col |-> c.fastq_col,
                        report_col |-> c.report_col, ncpus |-> n]
    /\ cpu_count \in CpuCounts
    /\ mpc = "cols"
    /\ ncpus = margs.ncpus
    /\ pool = "none"
    /\ nstarted = 0
    /\ running = {}
    /\ completed = <<>>
    /\ results = <<>>
    /\ firstfail = 0
    /\ summaries = <<>>
    /\ merr = NoError

\* lines 138-145: the column names are distinct and columns of df
CheckColumns ==
    /\ mpc = "cols"
    /\ LET cols == <<margs.name_col, margs.fastq_col>> \o
                   (IF margs.report_col # "" THEN <<margs.report_col>> ELSE <<>>)
       IN  IF Len(cols) # Cardinality(Range(cols))
           THEN mpc' = "raised" /\ merr' = ConfigError("repeated column names")
           ELSE IF \E i \in 1..Len(cols) : cols[i] \notin df.columns
           THEN mpc' = "raised" /\ merr' = ConfigError("df lacks column")
           ELSE mpc' = "names" /\ UNCHANGED merr
    /\ UNCHANGED <<df, margs, cpu_count, ncpus, pool, nstarted, running, completed,
                   results, firstfail, summaries, rvars, cvars, svars, avars>>

\* CheckNames that accepts any names
CheckNames_none ==
    /\ mpc = "names"
    /\ mpc' = "ncpus"
    /\ UNCHANGED <<df, margs, cpu_count, ncpus, pool, nstarted, running, completed,
                   results, firstfail, summaries, merr, rvars, cvars, svars, avars>>

\* lines 147-148: the run names are unique
CheckNames ==
    /\ mpc = "names"
    /\ IF Len(Column(margs.name_col)) # Cardinality(Range(Column(margs.name_col)))
       THEN mpc' = "raised" /\ merr' = ConfigError("run names not unique")
       ELSE mpc' = "ncpus" /\ UNCHANGED merr
    /\ UNCHANGED <<df, margs, cpu_count, ncpus, pool, nstarted, running, completed,
                   results, firstfail, summaries, rvars, cvars, svars, avars>>

\* lines 151-162: the number of workers; a pool of processes for more than one
ResolveNcpus ==
    /\ mpc = "ncpus"
    /\ \E n \in {IF ncpus = -1 THEN cpu_count
                 ELSE IF cpu_count < ncpus THEN cpu_count ELSE ncpus} :
          /\ ncpus' = n
          /\ IF n < 1
             THEN /\ mpc' = "raised"
                  /\ merr' = ConfigError("ncpus must be >= 1")
                  /\ UNCHANGED <<pool, results>>
             ELSE IF n > 1
             THEN /\ mpc' = "pool"
                  /\ pool' = "open"
                  /\ results' = [i \in 1..Len(df.rows) |-> RowCall(i)]
                  /\ UNCHANGED merr
             ELSE /\ mpc' = "map"
                  /\ UNCHANGED <<pool, results, merr>>
    /\ UNCHANGED <<df, margs, cpu_count, nstarted, running, completed,
                   firstfail, summaries, rvars, cvars, svars, avars>>

\* lines 161-163 with one cpu: the next f(*argtup) of the list; an exception
\* of Summary ends __init__
SeqConstruct ==
    /\ mpc = "map"
    /\ Len(results) < Len(df.rows)
    /\ nstarted' = nstarted + 1
    /\ \E r \in {RowSummary(Len(results) + 1)} :
          IF r.pc = "raised"
          THEN mpc' = "raised" /\ merr' = r.err /\ UNCHANGED results
          ELSE results' = Append(results, r) /\ UNCHANGED <<mpc, merr>>
    /\ UNCHANGED <<df, margs, cpu_count, ncpus, pool, running, completed,
                   firstfail, summaries, rvars, cvars, svars, avars>>

\* lines 163 and 170 with one cpu: the list is assigned, there is no pool
SeqReturn ==
    /\ mpc = "map"
    /\ Len(results) = Len(df.rows)
    /\ summaries' = [i \in 1..Len(results) |-> results[i].self]
    /\ mpc' = "done"
    /\ UNCHANGED <<df, margs, cpu_count, ncpus, pool, nstarted, running, completed,
                   results, firstfail, merr, rvars, cvars, svars, avars>>

\* pool.map: a free worker takes the next task, in the order of the rows
PoolDispatch ==
    /\ mpc = "pool"
    /\ nstarted < Len(df.rows)
    /\ Cardinality(running) < ncpus
    /\ nstarted' = nstarted + 1
    /\ running' = running \cup {nstarted + 1}
    /\ UNCHANGED <<df, margs, cpu_count, mpc, ncpus, pool, completed, results,
                   firstfail, summaries, merr, rvars, cvars, svars, avars>>

\* PoolComplete that collects the results in the order of completion
PoolComplete_inorder ==
    /\ mpc = "pool"
    /\ \E i \in running :
          \E r \in {RowSummary(i)} :
            /\ results' = [results EXCEPT ![Len(completed) + 1] = r]
            /\ running' = running \ {i}
            /\ completed' = Append(completed, i)
            /\ firstfail' = IF firstfail = 0 /\ r.pc = "raised"
                            THEN Len(completed) + 1 ELSE firstfail
    /\ UNCHANGED <<df, margs, cpu_count, mpc, ncpus, pool, nstarted,
                   summaries, merr, rvars, cvars, svars, avars>>

\* pool.map: the task of some worker ends; its result is stored at the index
\* of its row, and the first exception seen is the one kept
PoolComplete ==
    /\ mpc = "pool"
    /\ \E i \in running :
          \E r \in {RowSummary(i)} :
            /\ results' = [results EXCEPT ![i] = r]
            /\ running' = running \ {i}
            /\ completed' = Append(completed, i)
            /\ firstfail' = IF firstfail = 0 /\ r.pc = "raised" THEN i ELSE firstfail
    /\ UNCHANGED <<df, margs, cpu_count, mpc, ncpus, pool, nstarted,
                   summaries, merr, rvars, cvars, svars, avars>>

\* pool.map returns when every task has ended: the list of the results, or
\* the exception kept, which ends __init__ before line 170
PoolMapReturn ==
    /\ mpc = "pool"
    /\ nstarted = Len(df.rows)
    /\ running = {}
    /\ IF firstfail # 0
       THEN mpc' = "raised" /\ merr' = results[firstfail].err /\ UNCHANGED summaries
       ELSE /\ summaries' = [i \in 1..Len(results) |-> results[i].self]
            /\ mpc' = "close"
            /\ UNCHANGED merr
    /\ UNCHANGED <<df, margs, cpu_count, ncpus, pool, nstarted, running, completed,
                   results, firstfail, rvars, cvars, svars, avars>>

\* line 171
PoolClose ==
    /\ mpc = "close"
    /\ pool' = "closed"
    /\ mpc' = "join"
    /\ UNCHANGED <<df, margs, cpu_count, ncpus, nstarted, running, completed,
                   results, firstfail, summaries, merr, rvars, cvars, svars, avars>>

\* line 172
PoolJoin ==
    /\ mpc = "join"
    /\ pool' = "joined"
    /\ mpc' = "clear"
    /\ UNCHANGED <<df, margs, cpu_count, ncpus, nstarted, running, completed,
                   results, firstfail, summaries, merr, rvars, cvars, svars, avars>>

\* line 173
PoolClear ==
    /\ mpc = "clear"
    /\ pool' = "cleared"
    /\ mpc' = "done"
    /\ UNCHANGED <<df, margs, cpu_count, ncpus, nstarted, running, completed,
                   results, firstfail, summaries, merr, rvars, cvars, svars, avars>>

NextSummaries ==
    \/ CheckColumns \/ CheckNames \/ ResolveNcpus
    \/ SeqConstruct \/ SeqReturn
    \/ PoolDispatch \/ PoolComplete \/ PoolMapReturn
    \/ PoolClose \/ PoolJoin \/ PoolClear

-----------------------------------------------------------------------------
(* Properties of Summaries.__init__                                        *)

\* the names given for the columns repeat, or df lacks one of them
ColumnsInvalid ==
    \/ margs.name_col = margs.fastq_col
    \/ margs.report_col \in {margs.name_col, margs.fastq_col}
    \/ margs.name_col \notin df.columns
    \/ margs.fastq_col \notin df.columns
    \/ margs.report_col # "" /\ margs.report_col \notin df.columns

\* two rows of df have the same run name
NamesRepeat ==
    \E i, j \in 1..Len(df.rows) :
        i # j /\ df.rows[i][margs.name_col] = df.rows[j][margs.name_col]

\* the number of workers that results from the ncpus given
EffectiveNcpus ==
    IF margs.ncpus = -1 \/ cpu_count < margs.ncpus THEN cpu_count ELSE margs.ncpus

ConfigInvalid == ColumnsInvalid \/ NamesRepeat \/ EffectiveNcpus < 1

ConfigMessages ==
    {"repeated column names", "df lacks column", "run names not unique",
     "ncpus must be >= 1"}

\* the rows whose Summary raises
FailingRows == {i \in 1..Len(df.rows) : RowSummary(i).pc = "raised"}

FirstFailingRow == CHOOSE i \in FailingRows : \A j \in FailingRows : i <= j

Constructed == mpc \in {"done", "raised"}

\* C3: every configuration error (repeated or missing column names, run
\* names that repeat, fewer than one worker) is raised before any Summary
\* is constructed: with such a configuration no task is ever started and
\* no pool is made, and construction ends with one of the four errors.
C3_ConfigBeforeSummaries ==
    /\ ConfigInvalid =>
          /\ nstarted = 0
          /\ pool = "none"
          /\ mpc \in {"cols", "names", "ncpus", "raised"}
          /\ mpc = "raised" =>
                merr.type = "ValueError" /\ merr.msg \in ConfigMessages
    /\ (mpc = "raised" /\ merr.msg \in ConfigMessages) =>
          ConfigInvalid /\ nstarted = 0

\* two rows with the same run name, whose files would otherwise be read
C3_Witness ==
    /\ mpc = "raised"
    /\ merr.msg = "run names not unique"
    /\ Len(df.rows) = 2
    /\ ~ColumnsInvalid
    /\ EffectiveNcpus >= 1
    /\ nstarted = 0

\* C4: when a pool was created, it is closed, joined and cleared by the
\* time construction ends, also when the Summary of some run raises, and
\* the error of a failing run is what construction raises.
C4_PoolReleased ==
    (Constructed /\ pool # "none") =>
        /\ pool = "cleared"
        /\ FailingRows # {} =>
              /\ mpc = "raised"
              /\ \E i \in FailingRows : merr = RowSummary(i).err

\* C5 as stated: summaries holds the Summary of row i at index i, and the
\* outcome (the list, or the failure) is the one of sequential
\* construction, whatever the number of workers and the order of completion.
C5_SameAsSequential ==
    (Constructed /\ ~ConfigInvalid) =>
        IF FailingRows = {}
        THEN /\ mpc = "done"
             /\ Len(summaries) = Len(df.rows)
             /\ \A i \in 1..Len(df.rows) : summaries[i] = RowSummary(i).self
        ELSE /\ mpc = "raised"
             /\ merr = RowSummary(FirstFailingRow).err

\* C5 amended: summaries holds the Summary of row i at index i whatever the
\* order of completion, and construction fails exactly when some row fails;
\* the error is the one of the first failing row with one worker, and the
\* one of the failing row that ended first with more workers.
C5_ByIndex ==
    (Constructed /\ ~ConfigInvalid) =>
        IF FailingRows = {}
        THEN /\ mpc = "done"
             /\ Len(summaries) = Len(df.rows)
             /\ \A i \in 1..Len(df.rows) : summaries[i] = RowSummary(i).self
        ELSE /\ mpc = "raised"
             /\ ncpus = 1 => merr = RowSummary(FirstFailingRow).err
             /\ ncpus > 1 =>
                   /\ firstfail \in FailingRows
                   /\ merr = RowSummary(firstfail).err
                   /\ \A k \in 1..Len(completed) :
                         completed[k] \in FailingRows =>
                            \E m \in 1..k : completed[m] = firstfail

\* two runs in a pool of two workers, the second ending before the first
C5_Witness ==
    /\ mpc = "done"
    /\ pool = "cleared"
    /\ completed = <<2, 1>>
    /\ Len(summaries) = 2
    /\ summaries[1].name = "r1"
    /\ summaries[2].name = "r2"

-----------------------------------------------------------------------------
(* Float cells of the data frames of zmw_stats                             *)

RECURSIVE GCD(_, _)
GCD(a, b) == IF b = 0 THEN a ELSE With(a % b, LAMBDA r : GCD(b, r))

\* a float cell in lowest terms
Lowest(x) ==
    IF x.k # "frac" THEN x
    ELSE With(GCD(x.num, x.den), LAMBDA g :
            IF g = 0 THEN x ELSE Frac(x.num \div g, x.den \div g))

\* a + b of float cells
FloatAdd(a, b) ==
    IF a.k # "frac" \/ b.k # "frac" THEN NaN
    ELSE Lowest(Frac(a.num * b.den + b.num * a.den, a.den * b.den))

\* a < b of float cells, False when one is nan
FloatLess(a, b) ==
    /\ a.k = "frac"
    /\ b.k = "frac"
    /\ a.num * b.den < b.num * a.den

\* equality of float cells as keys of a merge, where nan matches nan
FloatEq(a, b) ==
    \/ a.k = "nan" /\ b.k = "nan"
    \/ a.k = "frac" /\ b.k = "frac" /\ a.num * b.den = b.num * a.den

\* sum of a sequence of float cells, which skips nan
FloatSum(cells) ==
    LET f[i \in Nat] ==
            IF i = 0 THEN Frac(0, 1)
            ELSE IF cells[i].k # "frac" THEN f[i - 1]
            ELSE With(f[i - 1], LAMBDA acc : FloatAdd(acc, cells[i]))
    IN  f[Len(cells)]

\* max of a sequence of float cells, which skips nan; nan when all are nan
FloatMax(cells) ==
    LET f[i \in Nat] ==
            IF i = 0 THEN NaN
            ELSE With(f[i - 1], LAMBDA acc :
                    IF cells[i].k # "frac" THEN acc
                    ELSE IF acc.k # "frac" \/ FloatLess(acc, cells[i])
                    THEN cells[i] ELSE acc)
    IN  f[Len(cells)]

\* sum of a sequence of integers
IntSum(ns) ==
    LET f[i \in Nat] == IF i = 0 THEN 0 ELSE f[i - 1] + ns[i] IN f[Len(ns)]

\* str.contains(sub)
Contains(s, sub) ==
    \E i \in 1..(Len(s) - Len(sub) + 1) : SubSeq(s, i, i + Len(sub) - 1) = sub

\* the order of the characters of run names
CharOrder == "0123456789abcdefghijklmnopqrstuvwxyz"

CharOrd(c) == CHOOSE i \in 1..Len(CharOrder) : Ch(CharOrder, i) = c

\* a < b of strings
StrLess(a, b) ==
    \E i \in 1..Len(b) :
        /\ \A j \in 1..(i - 1) : j <= Len(a) /\ Ch(a, j) = Ch(b, j)
        /\ i > Len(a) \/ CharOrd(Ch(a, i)) < CharOrd(Ch(b, i))

\* the elements of a sequence without repetition, in order of first
\* appearance: Series.unique()
Unique(xs) ==
    LET f[i \in Nat] ==
            IF i = 0 THEN <<>>
            ELSE With(f[i - 1], LAMBDA acc :
                    IF xs[i] \in Range(acc) THEN acc ELSE Append(acc, xs[i]))
    IN  f[Len(xs)]

\* a stable sort of rows by the strict order Before
StableSort(rows, Before(_, _)) ==
    With([i \in 1..Len(rows) |->
            1 + Cardinality({j \in 1..Len(rows) :
                    \/ Before(rows[j], rows[i])
                    \/ j < i /\ ~Before(rows[i], rows[j])})],
         LAMBDA pos :
            [k \in 1..Len(rows) |-> rows[CHOOSE i \in 1..Len(rows) : pos[i] = k]])

\* the position of x in the sequence xs: the code of a Categorical
IndexOf(xs, x) == CHOOSE i \in 1..Len(xs) : xs[i] = x

\* the sequence of f(x) for x in xs
Map(xs, F(_)) == [i \in 1..Len(xs) |-> F(xs[i])]

-----------------------------------------------------------------------------
(* Summaries.has_stat, ccs_stats, has_zmw_stats, zmw_stats                 *)

\* an exception of a method of Summaries: its message, and the run and the
\* data that the message names ("" when it names none)
StatsError(msg, run, data) ==
    Raise([type |-> "ValueError", msg |-> msg, run |-> run, data |-> data])

\* valid_variables
ValidVariables == {"length", "passes", "accuracy"}

\* getattr(summary, variable) is not None
HasAttr(summary, variable) ==
    IF variable = "passes" THEN ~summary.passes.none ELSE TRUE

\* has_stat for a valid variable
has_stat(ss, variable) == \A i \in 1..Len(ss) : HasAttr(ss[i], variable)

has_zmw_stats(ss) == \A i \in 1..Len(ss) : ss[i].zmw_stats # None

\* the concatenation of a sequence of sequences
Flatten(seqs) ==
    LET f[i \in Nat] ==
            IF i = 0 THEN <<>> ELSE With(f[i - 1], LAMBDA acc : acc \o seqs[i])
    IN  f[Len(seqs)]

\* getattr(summary, variable) as a sequence of values
GetAttr(summary, variable) ==
    CASE variable = "passes" -> summary.passes.vals
      [] variable = "length" -> summary.length
      [] variable = "accuracy" -> summary.accuracy

\* lines 248-261 of ccs_stats: the error of has_stat for an unknown
\* variable, the error for a variable some run lacks, pd.concat of the
\* frames (name, value) of the runs, which raises for an empty list
ccs_stats(ss, variable) ==
    IF variable \notin ValidVariables
    THEN StatsError("Invalid variable", "", variable)
    ELSE IF ~has_stat(ss, variable)
    THEN StatsError("no stats for variable", "", variable)
    ELSE IF Len(ss) = 0
    THEN StatsError("No objects to concatenate", "", "")
    ELSE DataFrame(Flatten([i \in 1..Len(ss) |->
            Map(GetAttr(ss[i], variable), LAMBDA v :
                [name |-> ss[i].name, value |-> v])]))

\* lines 344-347: the tables of the runs, each with the name of its run
ZmwConcat(ss) ==
    Flatten([i \in 1..Len(ss) |->
        Map(ss[i].zmw_stats.rows, LAMBDA r :
            [name |-> ss[i].name, status |-> r.status, number |-> r.number,
             fraction |-> r.fraction])])

\* the fraction of the row itself in place of the largest of its status
StatusMax_row(rows, r) == r.fraction

\* groupby('status')['fraction'].transform(max) for the row r
StatusMax(rows, r) ==
    FloatMax(Map(SelectSeq(rows, LAMBDA x : x.status = r.status),
                 LAMBDA x : x.fraction))

\* the columns where other also takes a max_fraction equal to minfailfrac
ZmwAssign_le(rows, minfailfrac) ==
    Map(rows, LAMBDA r :
        With(StatusMax(rows, r), LAMBDA mx :
        With(Contains(r.status, "Failed"), LAMBDA failed :
            [name |-> r.name, status |-> r.status, number |-> r.number,
             fraction |-> r.fraction, max_fraction |-> mx, failed |-> failed,
             other |-> mx.k = "frac" /\ ~FloatLess(minfailfrac, mx) /\ failed])))

\* lines 348-355: the columns max_fraction, failed and other
ZmwAssign(rows, minfailfrac) ==
    Map(rows, LAMBDA r :
        With(StatusMax(rows, r), LAMBDA mx :
        With(Contains(r.status, "Failed"), LAMBDA failed :
            [name |-> r.name, status |-> r.status, number |-> r.number,
             fraction |-> r.fraction, max_fraction |-> mx, failed |-> failed,
             other |-> FloatLess(mx, minfailfrac) /\ failed])))

\* the column number of a frame summed: integer cells
NumberSum(rows) == Num(IntSum(Map(rows, LAMBDA x : x.number.n)))

\* the keys of groupby('name'): the names of the rows, sorted
GroupNames(rows) ==
    StableSort(Unique(Map(rows, LAMBDA x : x.name)), StrLess)

\* lines 358-367: one row "Failed -- Other reason" per run that has rows
\* marked other, with their summed number and fraction; max_fraction is the
\* largest of these fractions
OtherDf(rows) ==
    With(SelectSeq(rows, LAMBDA x : x.other), LAMBDA sel :
    With(Map(GroupNames(sel), LAMBDA n :
            With(SelectSeq(sel, LAMBDA x : x.name = n), LAMBDA g :
                [name |-> n, number |-> NumberSum(g),
                 fraction |-> FloatSum(Map(g, LAMBDA x : x.fraction)),
                 failed |-> \E i \in 1..Len(g) : g[i].failed,
                 status |-> "Failed -- Other reason"])), LAMBDA agg :
    With(FloatMax(Map(agg, LAMBDA x : x.fraction)), LAMBDA mx :
        Map(agg, LAMBDA x :
            [name |-> x.name, status |-> x.status, number |-> x.number,
             fraction |-> x.fraction, max_fraction |-> mx,
             failed |-> x.failed]))))

\* two rows agree on the columns name, status, number, fraction,
\* max_fraction and failed, the keys of the merges
SameKeys(a, b) ==
    /\ a.name = b.name
    /\ a.status = b.status
    /\ a.number = b.number
    /\ FloatEq(a.fraction, b.fraction)
    /\ FloatEq(a.max_fraction, b.max_fraction)
    /\ a.failed = b.failed

\* left.merge(right, how='outer') of frames with the same six columns:
\* a row of left for each row of right with its keys, or once when there
\* is none, then the rows of right whose keys are not in left
Merge(left, right) ==
    Flatten(Map(left, LAMBDA l :
        With(SelectSeq(right, LAMBDA r : SameKeys(l, r)), LAMBDA m :
            IF m = <<>> THEN <<l>> ELSE Map(m, LAMBDA r : l))))
    \o SelectSeq(right, LAMBDA r : \A i \in 1..Len(left) : ~SameKeys(left[i], r))

\* lines 369-373: the rows not marked other, without the column other,
\* merged with other_df
MergeOther(rows, other) ==
    Merge(Map(SelectSeq(rows, LAMBDA x : ~x.other), LAMBDA x :
            [name |-> x.name, status |-> x.status, number |-> x.number,
             fraction |-> x.fraction, max_fraction |-> x.max_fraction,
             failed |-> x.failed]),
          other)

\* success rows grouped with the number of the first row of each run
SuccessDf_first(rows) ==
    With(SelectSeq(rows, LAMBDA x : IsSuccess(x.status)), LAMBDA sel :
        Map(GroupNames(sel), LAMBDA n :
            With(SelectSeq(sel, LAMBDA x : x.name = n), LAMBDA g :
                [name |-> n, status |-> "Success -- CCS generated",
                 number |-> g[1].number,
                 fraction |-> FloatSum(Map(g, LAMBDA x : x.fraction)),
                 max_fraction |-> FloatMax(Map(g, LAMBDA x : x.max_fraction)),
                 failed |-> \E i \in 1..Len(g) : g[i].failed])))

\* lines 376-383: one row "Success -- CCS generated" per run that has rows
\* whose status begins with Success, with their summed number and fraction
\* and the largest of their max_fraction
SuccessDf(rows) ==
    With(SelectSeq(rows, LAMBDA x : IsSuccess(x.status)), LAMBDA sel :
        Map(GroupNames(sel), LAMBDA n :
            With(SelectSeq(sel, LAMBDA x : x.name = n), LAMBDA g :
                [name |-> n, status |-> "Success -- CCS generated",
                 number |-> NumberSum(g),
                 fraction |-> FloatSum(Map(g, LAMBDA x : x.fraction)),
                 max_fraction |-> FloatMax(Map(g, LAMBDA x : x.max_fraction)),
                 failed |-> \E i \in 1..Len(g) : g[i].failed])))

\* lines 384-387: the rows whose status does not begin with Success,
\* merged with success_df
MergeSuccess(rows, success) ==
    Merge(SelectSeq(rows, LAMBDA x : ~IsSuccess(x.status)), success)

\* an order of the rows by max_fraction alone
StatusBefore_nofailed(a, b) ==
    \/ FloatLess(b.max_fraction, a.max_fraction)
    \/ a.max_fraction.k = "frac" /\ b.max_fraction.k = "nan"

\* sort_values(['failed', 'max_fraction'], ascending=[True, False]): rows
\* not failed first, then the larger max_fraction first, nan last
StatusBefore(a, b) ==
    \/ ~a.failed /\ b.failed
    \/ /\ a.failed = b.failed
       /\ \/ FloatLess(b.max_fraction, a.max_fraction)
          \/ a.max_fraction.k = "frac" /\ b.max_fraction.k = "nan"

\* lines 391-396: the statuses in the order of their first row
Statuses(rows) ==
    Unique(Map(StableSort(rows, StatusBefore), LAMBDA x : x.status))

\* lines 390 and 397-408: the rows sorted by the position of their name
\* among the names of the summaries, then by the position of their status
\* in statuses, without the columns max_fraction and failed
Order(rows, ss) ==
    With(Map(ss, LAMBDA x : x.name), LAMBDA names :
    With(Statuses(rows), LAMBDA statuses :
    With(Map(rows, LAMBDA x :
            [name |-> x.name, status |-> x.status, number |-> x.number,
             fraction |-> x.fraction,
             ncode |-> IndexOf(names, x.name),
             scode |-> IndexOf(statuses, x.status)]), LAMBDA coded :
        Map(StableSort(coded, LAMBDA a, b :
                \/ a.ncode < b.ncode
                \/ a.ncode = b.ncode /\ a.scode < b.scode),
            LAMBDA x : [name |-> x.name, status |-> x.status,
                        number |-> x.number, fraction |-> x.fraction]))))

-----------------------------------------------------------------------------
(* The runs summarized and the calls of ccs_stats and zmw_stats            *)

\* bound: the most runs of the Summaries whose statistics are asked
MaxStatsRuns == 3

\* the names of the runs, by row of df
StatsNames == <<"r2", "r1", "r3", "r4">>

\* n reads of a FASTQ file, with or without the tag np
Reads(n, tagged) ==
    [i \in 1..n |-> [comment |-> IF tagged THEN "np:i:5" ELSE "",
                     sequence |-> "AC", quality |-> "~+"]]

\* the files of the runs: reports of layout B whose successes are the reads
\* of the FASTQ file of the same letter (c.fastq without the tag np), a
\* report of layout A with a FASTQ file without reads, and e.fastq that
\* comes without report
StatsFiles ==
    [p \in {"a.fastq", "b.fastq", "c.fastq", "d.fastq", "e.fastq", "f.fastq",
            "a.txt", "b.txt", "c.txt", "d.txt", "f.txt"} |->
        CASE p = "a.fastq" -> FastqFile(Reads(1, TRUE))
          [] p = "b.fastq" -> FastqFile(Reads(2, TRUE))
          [] p = "c.fastq" -> FastqFile(Reads(1, FALSE))
          [] p = "d.fastq" -> FastqFile(Reads(0, TRUE))
          [] p = "e.fastq" -> FastqFile(Reads(1, TRUE))
          [] p = "f.fastq" -> FastqFile(Reads(0, TRUE))
          [] p = "a.txt" ->
                ReportFile("ZMW Yield\nSuccess -- CCS generated,1,50%\nFailed -- Foo,1,2%\n\n\n")
          [] p = "b.txt" ->
                ReportFile("ZMW Yield\nFailed -- Foo,1,0.5%\nFailed -- Bar,3,55%\n"
                           \o "Success (with retry),1,20%\nSuccess (without retry),1,20%\n\n\n")
          [] p = "c.txt" ->
                ReportFile("ZMW Yield\nSuccess -- CCS generated,1,50%\nFailed -- Foo,1,0.3%\n"
                           \o "Failed -- Bar,2,0.5%\n\n\n")
          [] p = "d.txt" ->
                ReportFile("ZMW Yield\nFailed -- Other reason,2,50%\nFailed -- Bar,1,25%\n"
                           \o "Failed -- Foo,1,25%\n\n\n")
          [] p = "f.txt" ->
                ReportFile("ZMWs input (A) : 4\nZMWs generating CCS (B)  : 1 (25%)\n"
                           \o "ZMWs filtered (C) : 3 (75%)\n\nExclusive ZMW counts for (C):\n"
                           \o "Below SNR: 3 (100%)\n")]

\* the FASTQ file and the report ("" for none) of a run
StatsRuns ==
    {[fastq |-> "a.fastq", report |-> "a.txt"],
     [fastq |-> "b.fastq", report |-> "b.txt"],
     [fastq |-> "c.fastq", report |-> "c.txt"],
     [fastq |-> "d.fastq", report |-> "d.txt"],
     [fastq |-> "e.fastq", report |-> ""],
     [fastq |-> "f.fastq", report |-> "f.txt"]}

\* the calls: ccs_stats(variable), zmw_stats(minfailfrac, groupsuccess)
StatsCalls ==
    {[method |-> "ccs_stats", variable |-> v, minfailfrac |-> NaN,
      groupsuccess |-> FALSE] : v \in ValidVariables \cup {"zmw"}}
    \cup
    {[method |-> "zmw_stats", variable |-> "", minfailfrac |-> m,
      groupsuccess |-> g] : m \in {Frac(1, 100), Frac(1, 2)}, g \in BOOLEAN}

\* the state after Summaries(df, ncpus=1) for a df of runs with distinct
\* names, and a call of a method on it
InitStats ==
    /\ \E runs \in SeqsOf(StatsRuns, 0, MaxStatsRuns) :
          /\ df = [columns |-> {"name", "fastq", "report"},
                   rows |-> [i \in 1..Len(runs) |->
                               [name |-> StatsNames[i], fastq |-> runs[i].fastq,
                                report |-> runs[i].report]]]
          /\ results = [i \in 1..Len(runs) |->
                          Summary(StatsNames[i], runs[i].fastq, runs[i].report,
                                  StatsFiles)]
    /\ \A i \in 1..Len(results) : results[i].pc = "done"
    /\ summaries = [i \in 1..Len(results) |-> results[i].self]
    /\ margs = [name_col |-> "name", fastq_col |-> "fastq",
                report_col |-> "report", ncpus |-> 1]
    /\ cpu_count = 1
    /\ mpc = "done"
    /\ ncpus = 1
    /\ pool = "none"
    /\ nstarted = Len(results)
    /\ running = {}
    /\ completed = <<>>
    /\ firstfail = 0
    /\ merr = NoError
    /\ scall \in StatsCalls
    /\ spc = "call"
    /\ zdf = <<>>
    /\ other_df = <<>>
    /\ success_df = <<>>
    /\ sresult = None

StatsUnchanged == UNCHANGED <<scall, rvars, cvars, svars, mvars>>

\* ccs_stats(variable), lines 248-261
CcsStats ==
    /\ spc = "call"
    /\ scall.method = "ccs_stats"
    /\ \E r \in {ccs_stats(summaries, scall.variable)} :
          /\ sresult' = r
          /\ spc' = IF r.kind = "raise" THEN "raised" ELSE "returned"
    /\ UNCHANGED <<zdf, other_df, success_df>>
    /\ StatsUnchanged

\* zmw_stats, lines 341-356: the error when a run has no ZMW stats, the
\* error of pd.concat for no run, or df with its columns
ZmwStart ==
    /\ spc = "call"
    /\ scall.method = "zmw_stats"
    /\ IF ~has_zmw_stats(summaries)
       THEN /\ sresult' = StatsError("ZMW stats not available", "", "ZMW stats")
            /\ spc' = "raised"
            /\ UNCHANGED zdf
       ELSE IF Len(summaries) = 0
       THEN /\ sresult' = StatsError("No objects to concatenate", "", "")
            /\ spc' = "raised"
            /\ UNCHANGED zdf
       ELSE /\ zdf' = ZmwAssign(ZmwConcat(summaries), scall.minfailfrac)
            /\ spc' = "other"
            /\ UNCHANGED sresult
    /\ UNCHANGED <<other_df, success_df>>
    /\ StatsUnchanged

\* lines 358-367
ZmwOther ==
    /\ spc = "other"
    /\ other_df' = OtherDf(zdf)
    /\ spc' = "merge"
    /\ UNCHANGED <<zdf, success_df, sresult>>
    /\ StatsUnchanged

\* lines 369-373
ZmwMergeOther ==
    /\ spc = "merge"
    /\ zdf' = MergeOther(zdf, other_df)
    /\ spc' = "success"
    /\ UNCHANGED <<other_df, success_df, sresult>>
    /\ StatsUnchanged

\* lines 375-387
ZmwGroupSuccess ==
    /\ spc = "success"
    /\ IF scall.groupsuccess
       THEN \E sdf \in {SuccessDf(zdf)} :
                /\ success_df' = sdf
                /\ zdf' = MergeSuccess(zdf, sdf)
       ELSE UNCHANGED <<zdf, success_df>>
    /\ spc' = "order"
    /\ UNCHANGED <<other_df, sresult>>
    /\ StatsUnchanged

\* lines 389-410
ZmwOrder ==
    /\ spc = "order"
    /\ sresult' = DataFrame(Order(zdf, summaries))
    /\ spc' = "returned"
    /\ UNCHANGED <<zdf, other_df, success_df>>
    /\ StatsUnchanged

NextStats ==
    \/ CcsStats
    \/ ZmwStart \/ ZmwOther \/ ZmwMergeOther \/ ZmwGroupSuccess \/ ZmwOrder

-----------------------------------------------------------------------------
(* Properties of ccs_stats and zmw_stats                                   *)

\* the method has ended; zmw_stats has returned its table
StatsEnded == spc \in {"returned", "raised"}

ZmwReturned == spc = "returned" /\ scall.method = "zmw_stats"

\* the rows of the parsed table of run i, and the rows of the output that
\* have the name of run i
ParsedRows(i) == summaries[i].zmw_stats.rows

OutRows(i) == SelectSeq(sresult.rows, LAMBDA r : r.name = summaries[i].name)

\* the largest fraction that a status reaches in the parsed table of any run
ParsedMax(status) ==
    FloatMax(Flatten([i \in 1..Len(summaries) |->
        Map(SelectSeq(ParsedRows(i), LAMBDA r : r.status = status),
            LAMBDA r : r.fraction)]))

\* the rows that are to be absorbed: the status contains "Failed" and its
\* largest fraction over the runs is strictly below minfailfrac
RareFailure(status) ==
    /\ Contains(status, "Failed")
    /\ FloatLess(ParsedMax(status), scall.minfailfrac)

AbsorbedRows(i) == SelectSeq(ParsedRows(i), LAMBDA r : RareFailure(r.status))

\* the parsed row r of run i is a row of the output as it was parsed
KeptAsParsed(i, r) ==
    \E k \in 1..Len(OutRows(i)) :
        /\ OutRows(i)[k].status = r.status
        /\ OutRows(i)[k].number = r.number
        /\ FloatEq(OutRows(i)[k].fraction, r.fraction)

BelowHereAboveElsewhere(r) ==
    /\ Contains(r.status, "Failed")
    /\ FloatLess(r.fraction, scall.minfailfrac)
    /\ ParsedMax(r.status).k = "frac"
    /\ ~FloatLess(ParsedMax(r.status), scall.minfailfrac)

\* C12 as stated: a failure status that is at or above the threshold in one
\* run and below it in others is absorbed into "Failed -- Other reason" in
\* the runs where it is below, and kept in the run where it is above.
C12_AbsorbedWhereBelow ==
    ZmwReturned =>
        \A i \in 1..Len(summaries) : \A k \in 1..Len(ParsedRows(i)) :
            LET r == ParsedRows(i)[k]
            IN  /\ BelowHereAboveElsewhere(r) =>
                      \A m \in 1..Len(OutRows(i)) : OutRows(i)[m].status # r.status
                /\ (Contains(r.status, "Failed")
                    /\ ~FloatLess(r.fraction, scall.minfailfrac)) =>
                      KeptAsParsed(i, r)

\* C12 amended: a failure status that is at or above the threshold in one
\* run is kept as its own row, as parsed, in every run that has it, also in
\* the runs where its fraction is below the threshold.
C12_KeptInEveryRun ==
    ZmwReturned =>
        \A i \in 1..Len(summaries) : \A k \in 1..Len(ParsedRows(i)) :
            LET r == ParsedRows(i)[k]
            IN  (Contains(r.status, "Failed")
                 /\ ParsedMax(r.status).k = "frac"
                 /\ ~FloatLess(ParsedMax(r.status), scall.minfailfrac)) =>
                    KeptAsParsed(i, r)

\* three runs with "Failed -- Foo" at 2%, 0.5% and 0.3% and minfailfrac
\* 0.01: each run has its row "Failed -- Foo"
C12_Witness ==
    /\ ZmwReturned
    /\ scall.minfailfrac = Frac(1, 100)
    /\ Len(summaries) = 3
    /\ \A i \in 1..3 : \E k \in 1..Len(ParsedRows(i)) :
          /\ ParsedRows(i)[k].status = "Failed -- Foo"
          /\ FloatEq(ParsedRows(i)[k].fraction,
                     <<Frac(2, 100), Frac(5, 1000), Frac(3, 1000)>>[i])
          /\ KeptAsParsed(i, ParsedRows(i)[k])

\* the rows of a frame whose status begins with "Success"
SuccessRows(rows) == SelectSeq(rows, LAMBDA r : IsSuccess(r.status))

\* C13: with groupsuccess, a run that has parsed rows whose status begins
\* with "Success" has exactly one such row in the output, named "Success --
\* CCS generated", with the summed number and fraction of its parsed
\* success rows; without groupsuccess its success rows are as parsed.
C13_SuccessGrouped ==
    ZmwReturned =>
        \A i \in 1..Len(summaries) :
            LET parsed == SuccessRows(ParsedRows(i))
                out == SuccessRows(OutRows(i))
            IN  IF scall.groupsuccess
                THEN /\ parsed = <<>> => out = <<>>
                     /\ parsed # <<>> =>
                          /\ Len(out) = 1
                          /\ out[1].status = "Success -- CCS generated"
                          /\ out[1].number = NumberSum(parsed)
                          /\ FloatEq(out[1].fraction,
                                     FloatSum(Map(parsed, LAMBDA r : r.fraction)))
                ELSE /\ Len(out) = Len(parsed)
                     /\ \A k \in 1..Len(parsed) : KeptAsParsed(i, parsed[k])

\* a run with the rows "Success (with retry)" and "Success (without
\* retry)", one ZMW each, has one row "Success -- CCS generated" with 2
C13_Witness ==
    /\ ZmwReturned
    /\ scall.groupsuccess
    /\ \E i \in 1..Len(summaries) :
          /\ Len(SuccessRows(ParsedRows(i))) = 2
          /\ Len(SuccessRows(OutRows(i))) = 1
          /\ SuccessRows(OutRows(i))[1].number = Num(2)

\* the largest fraction that a status has in the output
OutMax(status) ==
    FloatMax(Map(SelectSeq(sresult.rows, LAMBDA r : r.status = status),
                 LAMBDA r : r.fraction))

\* the largest max_fraction of the rows of a status in df before the sort
DfMax(status) ==
    FloatMax(Map(SelectSeq(zdf, LAMBDA r : r.status = status),
                 LAMBDA r : r.max_fraction))

\* C14: the output is in the order of the runs of the input and, within a
\* run, in one order of the statuses shared by the runs: statuses that are
\* not failed before failed ones, and in each group by descending
\* max_fraction; two failed statuses of which the first reaches the larger
\* fraction are in that order in every run that has both.
C14_Ordering ==
    ZmwReturned =>
        LET out == sresult.rows
            names == Map(summaries, LAMBDA x : x.name)
        IN  \A i, j \in 1..Len(out) :
                i < j =>
                    /\ IndexOf(names, out[i].name) <= IndexOf(names, out[j].name)
                    /\ out[i].name = out[j].name =>
                          /\ ~(Contains(out[i].status, "Failed")
                               /\ ~Contains(out[j].status, "Failed"))
                          /\ (Contains(out[i].status, "Failed")
                                = Contains(out[j].status, "Failed"))
                               => ~FloatLess(DfMax(out[i].status), DfMax(out[j].status))
                          /\ (Contains(out[i].status, "Failed")
                              /\ Contains(out[j].status, "Failed"))
                               => ~FloatLess(OutMax(out[i].status), OutMax(out[j].status))
                          /\ \A k, l \in 1..Len(out) :
                                (k < l /\ out[k].name = out[l].name
                                 /\ out[k].status = out[j].status
                                 /\ out[l].status = out[i].status)
                                    => out[i].status = out[j].status

\* three runs whose names are not in alphabetical order and whose failure
\* statuses are parsed in another order than that of their max_fraction
C14_Witness ==
    /\ ZmwReturned
    /\ Len(summaries) = 3
    /\ Len(sresult.rows) >= 6
    /\ sresult.rows[1].name = "r2"
    /\ sresult.rows[Len(sresult.rows)].name = "r3"
    /\ \E i \in 1..Len(summaries) :
          /\ Len(ParsedRows(i)) >= 3
          /\ ParsedRows(i)[1].status = "Failed -- Foo"
          /\ ParsedRows(i)[2].status = "Failed -- Bar"
          /\ Len(OutRows(i)) >= 3
          /\ OutRows(i)[2].status = "Failed -- Bar"
          /\ OutRows(i)[3].status = "Failed -- Foo"

\* the names of the runs that have no category table, and of the runs
\* that have no data for a variable
RunsWithoutTable ==
    {summaries[i].name : i \in {k \in 1..Len(summaries) : summaries[k].zmw_stats = None}}

RunsWithout(variable) ==
    {summaries[i].name :
        i \in {k \in 1..Len(summaries) : ~HasAttr(summaries[k], variable)}}

\* C15: zmw_stats fails when some run has no category table and
\* ccs_stats(variable) fails when some run has no data for the variable;
\* no table is returned and the error names such a run and the missing data.
C15_PreconditionErrors ==
    /\ (StatsEnded /\ scall.method = "zmw_stats" /\ RunsWithoutTable # {}) =>
          /\ sresult.kind = "raise"
          /\ sresult.err.run \in RunsWithoutTable
          /\ sresult.err.data = "ZMW stats"
    /\ (StatsEnded /\ scall.method = "ccs_stats"
        /\ scall.variable \in ValidVariables
        /\ RunsWithout(scall.variable) # {}) =>
          /\ sresult.kind = "raise"
          /\ sresult.err.run \in RunsWithout(scall.variable)
          /\ sresult.err.data = scall.variable

\* C18: zmw_stats conserves counts: for every run the numbers of its rows
\* in the output sum to the numbers of its parsed table.
C18_CountsConserved ==
    ZmwReturned =>
        \A i \in 1..Len(summaries) :
            NumberSum(OutRows(i)) = NumberSum(ParsedRows(i))

\* the statuses of the parsed table of every run are distinct
DistinctParsedStatuses ==
    \A i \in 1..Len(summaries) : \A k, l \in 1..Len(ParsedRows(i)) :
        ParsedRows(i)[k].status = ParsedRows(i)[l].status => k = l

\* C19: when the parsed tables have distinct statuses, every pair of run
\* name and status is in at most one row of the output.
C19_UniqueNameStatus ==
    (ZmwReturned /\ DistinctParsedStatuses) =>
        \A k, l \in 1..Len(sresult.rows) :
            (sresult.rows[k].name = sresult.rows[l].name
             /\ sresult.rows[k].status = sresult.rows[l].status) => k = l

-----------------------------------------------------------------------------
(* Specifications: one operation runs, the state of the others is idle     *)

IdleReport == report = "" /\ rstage = "idle" /\ rresult = None

IdleCcs == fastq = <<>> /\ pass_tag = "" /\ ccs = CcsStart("") /\ cstage = "idle"

IdleSummary ==
    /\ sfs = [p \in {"run.fastq", "report.txt"} |-> NoFile]
    /\ summ = [SummaryCall("", "", "") EXCEPT !.pc = "idle"]

IdleSummaries ==
    /\ df = [columns |-> {}, rows |-> <<>>]
    /\ margs = [name_col |-> "", fastq_col |-> "", report_col |-> "", ncpus |-> 1]
    /\ cpu_count = 1
    /\ mpc = "idle"
    /\ ncpus = 1
    /\ pool = "none"
    /\ nstarted = 0
    /\ running = {}
    /\ completed = <<>>
    /\ results = <<>>
    /\ firstfail = 0
    /\ summaries = <<>>
    /\ merr = NoError

IdleStats ==
    /\ scall = [method |-> "", variable |-> "", minfailfrac |-> NaN, groupsuccess |-> FALSE]
    /\ spc = "idle"
    /\ zdf = <<>>
    /\ other_df = <<>>
    /\ success_df = <<>>
    /\ sresult = None

StartReport == InitReport /\ IdleCcs /\ IdleSummary /\ IdleSummaries /\ IdleStats

StartCcs == IdleReport /\ InitCcs /\ IdleSummary /\ IdleSummaries /\ IdleStats

StartSummary == IdleReport /\ IdleCcs /\ InitSummary /\ IdleSummaries /\ IdleStats

StartSummaries == IdleReport /\ IdleCcs /\ IdleSummary /\ InitSummaries /\ IdleStats

StartStats == IdleReport /\ IdleCcs /\ IdleSummary /\ InitStats

SpecReport == StartReport /\ [][NextReport]_vars

SpecCcs == StartCcs /\ [][NextCcs]_vars

SpecSummary == StartSummary /\ [][NextSummary]_vars

SpecSummaries == StartSummaries /\ [][NextSummaries]_vars

SpecStats == StartStats /\ [][NextStats]_vars

====
